---- MODULE Spec2Model ----
(***************************************************************************)
(* Sequence assembly by greedy contraction of an overlap graph.            *)
(*                                                                         *)
(* Two implementations live in the repository and both are modelled:       *)
(*   impl = "own"  exercise_two/graph      (class OverlapGraph)            *)
(*   impl = "nx"   assembly_with_nx/graph  (networkx.DiGraph)              *)
(* A DNA string is a sequence of one-letter strings.                       *)
(***************************************************************************)
EXTENDS Integers, Sequences, FiniteSets, TLC

\* ------------------------------------------------------------------ bounds
MaxLen == 2
MaxFrags == 3
MaxTotal == 6
MaxNodes == 3

\* The two-letter sub-alphabet the inputs are enumerated over; it is closed
\* under the Watson-Crick complement.
Bases == {"A", "T"}

\* The worked example ["ATCG", "CGTA", "TAGG"], over the full alphabet.
ExampleFragments ==
  << <<"A", "T", "C", "G">>, <<"C", "G", "T", "A">>, <<"T", "A", "G", "G">> >>

\* The alphabet of DNA: the keys of COMPLEMENTS.
Alphabet == {"A", "C", "G", "T"}

\* An input file with a letter that is no base.
ForeignFragments == << <<"A", "X", "T">>, <<"X", "T", "A">> >>

Strings == UNION { [1..n -> Bases] : n \in 0..MaxLen }

\* The strings complement is called on, over the whole alphabet.
DnaStrings == UNION { [1..n -> Alphabet] : n \in 0..(2 * MaxLen) }

\* The strings overlap is called on: fragments and merges of fragments.
ScorerStrings == UNION { [1..n -> Bases] : n \in 0..(2 * MaxLen) }

\* The number of letters in the first k fragments of a list.
RECURSIVE SumLen(_, _)
SumLen(frags, k) == IF k = 0 THEN 0 ELSE Len(frags[k]) + SumLen(frags, k - 1)

\* Three fragments whose graph has Hamiltonian paths of different weight.
HamiltonFragments == << <<"A">>, <<"A", "A">>, <<"T", "A", "A">> >>

\* Four fragments whose heaviest edge leaves an edge between the other two
\* fragments alone.
FrameFragments ==
  << <<"A", "A", "T">>, <<"A", "T", "A">>, <<"T">>, <<"T", "T">> >>

\* The inputs: every list of at most MaxFrags strings with at most MaxTotal
\* letters in all, the worked example, the file with a foreign letter and the
\* two lists above.
FragmentLists ==
  { frags \in UNION { [1..n -> Strings] : n \in 0..MaxFrags } :
      SumLen(frags, Len(frags)) <= MaxTotal }
  \cup {ExampleFragments, ForeignFragments, HamiltonFragments, FrameFragments}

\* Python's None (Edge.match, largest_overlap["overlap"]) and a dictionary key
\* that was never set (largest_overlap["prefix_start"], ["prefix_end"]).
None == <<"None">>
Missing == -1

\* ------------------------------------------------------------ small helpers
Max(S) == CHOOSE x \in S : \A y \in S : y <= x

Min2(a, b) == IF a <= b THEN a ELSE b

\* A Python local: the expression is evaluated once and its value is named.
Bind(value, Body(_)) == CHOOSE y \in { Body(x) : x \in {value} } : TRUE

\* Python slice s[k:] with 0 <= k
SliceFrom(s, k) == SubSeq(s, k + 1, Len(s))

\* Python slice s[:k] with 0 <= k
SliceTo(s, k) == SubSeq(s, 1, Min2(k, Len(s)))

\* ------------------------------------------------------------------ overlap
\* The inner loop of overlap: every prefix string_two[:j], j = 0..len_s_two.
\* acc carries the dictionary largest_overlap and the local len_overlap.
RECURSIVE prefix_loop(_, _, _, _, _, _)
prefix_loop(string_one, string_two, i, j, last_j, acc) ==
  IF j > last_j THEN acc
  ELSE LET current_suffix_one == SliceFrom(string_one, i - 1)
           current_prefix_two == SliceTo(string_two, j)
           tmp_len == Len(current_prefix_two)
           hit == current_suffix_one = current_prefix_two /\ tmp_len > acc.len_overlap
           acc2 == IF hit
                   THEN [acc EXCEPT !.len_overlap = tmp_len,
                                    !.suffix_start = i - 1,
                                    !.suffix_end = Len(string_one),
                                    !.prefix_start = 0,
                                    !.prefix_end = j,
                                    !.weight = tmp_len,
                                    !.overlap = current_suffix_one]
                   ELSE acc
       IN prefix_loop(string_one, string_two, i, j + 1, last_j, acc2)

\* The outer loop of overlap: i = len_s_one, len_s_one - 1, ..., first_i.
RECURSIVE suffix_loop(_, _, _, _, _, _)
suffix_loop(string_one, string_two, i, first_i, last_j, acc) ==
  IF i < first_i THEN acc
  ELSE Bind(prefix_loop(string_one, string_two, i, 0, last_j, acc), LAMBDA acc2 :
         suffix_loop(string_one, string_two, i - 1, first_i, last_j, acc2))

empty_overlap(string_one, string_two) ==
  [suffix_string |-> string_one, prefix_string |-> string_two,
   overlap |-> None, weight |-> 0, len_overlap |-> 0,
   suffix_start |-> Missing, suffix_end |-> Missing,
   prefix_start |-> Missing, prefix_end |-> Missing]

\* A scan that stops one prefix short: range(len_s_two) instead of
\* range(len_s_two + 1).
overlap_short_prefix_range(string_one, string_two) ==
  Bind(<<string_one, string_two>>, LAMBDA s :
    suffix_loop(s[1], s[2], Len(s[1]), 1, Len(s[2]) - 1, empty_overlap(s[1], s[2])))

overlap(string_one, string_two) ==
  Bind(<<string_one, string_two>>, LAMBDA s :
    suffix_loop(s[1], s[2], Len(s[1]), 1, Len(s[2]), empty_overlap(s[1], s[2])))

\* --------------------------------------------------------------- the state
VARIABLES
  impl,            \* "own": exercise_two, "nx": assembly_with_nx
  random_tiebreak, \* OverlapGraph.random_tiebreak, set from --random
  fragments,       \* the fragment list read from the input file
  vertices,        \* OverlapGraph.vertices / the nodes of the DiGraph, in order
  edges,           \* OverlapGraph.edges / the edges of the DiGraph, in order
  pc,              \* "start", "loop", "done" or "error"
  p,               \* the local _p: contractions done so far in this run
  result,          \* what the assembler returned
  run,             \* 1 for the first run of the program, 2 for the second
  trace,           \* the (source id, sink id) pairs contracted in this run
  first_run,       \* trace and result of run 1, kept while run 2 executes
  assigned_ids,    \* every vertex id handed out so far in this run
  s_one, s_two,    \* arguments of a stand-alone call of overlap
  ov,              \* its returned dictionary
  strand,          \* argument of a stand-alone call of complement
  c_one, c_two,    \* complement(strand) and the complement of that
  orientations_with_weight, \* the local list of get_good_orientation
  max_weight_orientation,   \* what get_good_orientation returned
  print_graph,       \* --print_graphs
  print_only_result, \* --print_only_result
  shown,             \* the show_graph calls made so far in this run, in order
  hamiltonian_paths, \* the local list of the Hamiltonian strategy
  max_path,          \* the path assembly_hamilton picked
  argument,          \* the argument of a stand-alone call of one function
  returned           \* what that call returned and left behind

vars == <<impl, random_tiebreak, fragments, vertices, edges, pc, p, result,
          run, trace, first_run, assigned_ids, s_one, s_two, ov,
          strand, c_one, c_two, orientations_with_weight,
          max_weight_orientation, print_graph, print_only_result, shown,
          hamiltonian_paths, max_path, argument, returned>>

graph_vars == <<impl, random_tiebreak, fragments, vertices, edges, pc, p,
                result, run, trace, first_run, assigned_ids>>

scorer_vars == <<s_one, s_two, ov>>

complement_vars == <<strand, c_one, c_two>>

orientation_vars == <<orientations_with_weight, max_weight_orientation>>

print_vars == <<print_graph, print_only_result, shown>>

hamilton_vars == <<hamiltonian_paths, max_path>>

method_vars == <<argument, returned>>

\* The variables a greedy run leaves alone.
call_vars == <<scorer_vars, complement_vars, orientation_vars, hamilton_vars,
               method_vars>>

Pending == [kind |-> "pending"]

\* ----------------------------------------------------- vertices and edges
Vertex(id, value) == [id |-> id, value |-> value]

Edge(id, source, sink, weight, match, pos_start, pos_end) ==
  [id |-> id, source |-> source, sink |-> sink, weight |-> weight,
   match |-> match, pos_start |-> pos_start, pos_end |-> pos_end]

Range(seq) == { seq[i] : i \in 1..Len(seq) }

get_vertex_ids(vs) == [i \in 1..Len(vs) |-> vs[i].id]

get_edge_ids(es) == [i \in 1..Len(es) |-> es[i].id]

\* The Vertex object an edge refers to; vs holds every object still alive.
vertex_by_id(vs, id) == CHOOSE v \in Range(vs) : v.id = id

get_value(vs, id) == vertex_by_id(vs, id).value

\* A vertex id that is handed out again although a present vertex carries it.
add_vertex_reusing_ids(vs, value) ==
  Append(vs, Vertex(Len(vs) + 1, value))

add_vertex(vs, value) ==
  LET vertex_ids == get_vertex_ids(vs)
      _id == IF vertex_ids = <<>> THEN 1 ELSE Max(Range(vertex_ids)) + 1
  IN Append(vs, Vertex(_id, value))

add_edge(es, source, sink, weight, match, pos_start, pos_end) ==
  LET edge_ids == get_edge_ids(es)
      _id == IF edge_ids = <<>> THEN 1 ELSE Max(Range(edge_ids)) + 1
  IN Append(es, Edge(_id, source, sink, weight, match, pos_start, pos_end))

find_outgoing_edges(es, vertex_id) ==
  SelectSeq(es, LAMBDA edge : edge.source = vertex_id)

find_incoming_edges(es, vertex_id) ==
  SelectSeq(es, LAMBDA edge : edge.sink = vertex_id)

\* list.remove(x) for the objects of to_remove, which are all in the list
remove_all(seq, to_remove) ==
  SelectSeq(seq, LAMBDA x : x \notin Range(to_remove))

\* ------------------------------------------------- Edge: the span of the match
\* Edge.set_match_position(match_position), lines 101-103.
set_match_position(edge, match_position) ==
  [edge EXCEPT !.pos_start = match_position[1], !.pos_end = match_position[2]]

\* Edge.get_match_position(), lines 153-154: return self.pos_start, self.pos_start
get_match_position(edge) == <<edge.pos_start, edge.pos_start>>

\* ------------------------------------- OverlapGraph: look-up and removal by id
\* What a method returned: None, True or False, or an object of the graph.
NoneReturned == [kind |-> "None"]

Returned(kind, value) == [kind |-> kind, value |-> value]

\* OverlapGraph.get_edge: next((edge for edge in self.edges if edge.id == id), None)
get_edge(es, id) ==
  IF \E i \in 1..Len(es) : es[i].id = id
  THEN Returned("Edge", es[CHOOSE i \in 1..Len(es) :
                            es[i].id = id /\ \A j \in 1..(i - 1) : es[j].id # id])
  ELSE NoneReturned

\* OverlapGraph.get_vertex, lines 526-534: the generator runs over self.edges.
get_vertex(vs, es, id) == get_edge(es, id)

\* OverlapGraph.remove_vertex, lines 471-483: self.edges.remove(self.get_edge(id));
\* list.remove(None) raises the ValueError that makes the method return False.
remove_vertex(vs, es, id) ==
  Bind(get_edge(es, id), LAMBDA found :
    IF found = NoneReturned
    THEN [returned |-> Returned("bool", FALSE), vertices |-> vs, edges |-> es]
    ELSE [returned |-> Returned("bool", TRUE), vertices |-> vs,
          edges |-> SelectSeq(es, LAMBDA e : e # found.value)])

\* ------------------------------------------- OverlapGraph.build_from_fragments
RECURSIVE add_vertices(_, _, _)
add_vertices(vs, frags, k) ==
  IF k > Len(frags) THEN vs
  ELSE Bind(add_vertex(vs, frags[k]), LAMBDA vs2 :
         add_vertices(vs2, frags, k + 1))

\* The two nested loops of determine_edges; k counts the pairs (a, b) visited.
\* Each unordered pair scored once, from the earlier vertex to the later one.
RECURSIVE determine_edges_one_direction(_, _, _)
determine_edges_one_direction(vs, es, k) ==
  IF k >= Len(vs) * Len(vs) THEN es
  ELSE LET vertex == vs[(k \div Len(vs)) + 1]
           _vertex == vs[(k % Len(vs)) + 1]
       IN Bind(overlap(vertex.value, _vertex.value), LAMBDA o :
            Bind(IF vertex.id < _vertex.id /\ o.weight # 0
                 THEN add_edge(es, vertex.id, _vertex.id, o.weight, o.overlap,
                               o.prefix_start, o.prefix_end)
                 ELSE es,
                 LAMBDA es2 : determine_edges_one_direction(vs, es2, k + 1)))

RECURSIVE determine_edges(_, _, _)
determine_edges(vs, es, k) ==
  IF k >= Len(vs) * Len(vs) THEN es
  ELSE LET vertex == vs[(k \div Len(vs)) + 1]
           _vertex == vs[(k % Len(vs)) + 1]
       IN Bind(overlap(vertex.value, _vertex.value), LAMBDA o :
            Bind(IF vertex.id # _vertex.id /\ o.weight # 0
                 THEN add_edge(es, vertex.id, _vertex.id, o.weight, o.overlap,
                               o.prefix_start, o.prefix_end)
                 ELSE es,
                 LAMBDA es2 : determine_edges(vs, es2, k + 1)))

build_from_fragments(frags) ==
  Bind(add_vertices(<<>>, frags, 1), LAMBDA vs :
    [vertices |-> vs, edges |-> determine_edges(vs, <<>>, 0)])

\* ------------------------------------------------------------ merge_fragments
\* A merge that cuts one letter too many off the sink.
merge_fragments_off_by_one(source_value, sink_value, slice_positions) ==
  source_value \o SliceFrom(sink_value, slice_positions[2] + 1)

\* A merge that cuts the sink at the start of the match, not at its end.
merge_fragments_from_match_start(source_value, sink_value, slice_positions) ==
  source_value \o SliceFrom(sink_value, slice_positions[1])

merge_fragments(source_value, sink_value, slice_positions) ==
  source_value \o SliceFrom(sink_value, slice_positions[2])

\* ------------------------------------------------- choice of the edge to contract
\* sorted(seq, key=weight): Python's sort is stable; insertion sort is too.
RECURSIVE insert_by_weight(_, _)
insert_by_weight(sorted_seq, e) ==
  IF sorted_seq = <<>> THEN <<e>>
  ELSE LET last == sorted_seq[Len(sorted_seq)]
       IN IF last.weight <= e.weight
          THEN Append(sorted_seq, e)
          ELSE Append(insert_by_weight(SubSeq(sorted_seq, 1, Len(sorted_seq) - 1), e),
                      last)

RECURSIVE sorted_by_weight(_)
sorted_by_weight(seq) ==
  IF seq = <<>> THEN <<>>
  ELSE Bind(sorted_by_weight(SubSeq(seq, 1, Len(seq) - 1)), LAMBDA sorted_seq :
         insert_by_weight(sorted_seq, seq[Len(seq)]))

\* A choice that takes the first element of the sorted list, not the last.
max_edge_candidates_first_of_sort(es, random) ==
  Bind(sorted_by_weight(es)[1], LAMBDA max_edge :
    IF random
    THEN { edge \in Range(es) : edge.weight = max_edge.weight }
    ELSE { max_edge })

\* A choice that ignores the flag and always breaks ties at random.
max_edge_candidates_always_random(es, random) ==
  Bind(sorted_by_weight(es)[Len(es)], LAMBDA max_edge :
    { edge \in Range(es) : edge.weight = max_edge.weight })

\* The edges max_edge may be bound to at line 332 (own) / 71 (nx).
max_edge_candidates(es, random) ==
  Bind(sorted_by_weight(es)[Len(es)], LAMBDA max_edge :
    IF random
    THEN { edge \in Range(es) : edge.weight = max_edge.weight }
    ELSE { max_edge })

\* ------------------------------ OverlapGraph.merge_by_arbitrary_tiebreaks
\* A rescoring of an incoming edge with the merged vertex as the suffix side.
redirect_sink_swapped(edge, merged_vertex, alive) ==
  Bind(overlap(merged_vertex.value, get_value(alive, edge.source)), LAMBDA o :
    LET e2 == [edge EXCEPT !.sink = merged_vertex.id, !.weight = o.weight,
                           !.match = o.overlap]
    IN IF o.prefix_start = Missing \/ o.prefix_end = Missing
       THEN [edge |-> e2, raised |-> TRUE]
       ELSE [edge |-> [e2 EXCEPT !.pos_start = o.prefix_start,
                                 !.pos_end = o.prefix_end],
             raised |-> FALSE])

\* Lines 369-376 for one edge: the sink becomes the merged vertex and the edge
\* is scored again.  ov["prefix_start"] raises KeyError when the score is 0;
\* weight and match are already overwritten by then.
redirect_sink(edge, merged_vertex, alive) ==
  Bind(overlap(get_value(alive, edge.source), merged_vertex.value), LAMBDA o :
    LET e2 == [edge EXCEPT !.sink = merged_vertex.id, !.weight = o.weight,
                           !.match = o.overlap]
    IN IF o.prefix_start = Missing \/ o.prefix_end = Missing
       THEN [edge |-> e2, raised |-> TRUE]
       ELSE [edge |-> [e2 EXCEPT !.pos_start = o.prefix_start,
                                 !.pos_end = o.prefix_end],
             raised |-> FALSE])

\* A rescoring with the two arguments of overlap exchanged.
redirect_source_swapped(edge, merged_vertex, alive) ==
  Bind(overlap(get_value(alive, edge.sink), merged_vertex.value), LAMBDA o :
    LET e2 == [edge EXCEPT !.source = merged_vertex.id, !.weight = o.weight,
                           !.match = o.overlap]
    IN IF o.prefix_start = Missing \/ o.prefix_end = Missing
       THEN [edge |-> e2, raised |-> TRUE]
       ELSE [edge |-> [e2 EXCEPT !.pos_start = o.prefix_start,
                                 !.pos_end = o.prefix_end],
             raised |-> FALSE])

\* Lines 378-385 for one edge.
redirect_source(edge, merged_vertex, alive) ==
  Bind(overlap(merged_vertex.value, get_value(alive, edge.sink)), LAMBDA o :
    LET e2 == [edge EXCEPT !.source = merged_vertex.id, !.weight = o.weight,
                           !.match = o.overlap]
    IN IF o.prefix_start = Missing \/ o.prefix_end = Missing
       THEN [edge |-> e2, raised |-> TRUE]
       ELSE [edge |-> [e2 EXCEPT !.pos_start = o.prefix_start,
                                 !.pos_end = o.prefix_end],
             raised |-> FALSE])

\* A loop body that leads every edge to the merged vertex.
rewrite_edge_of_any_edge(edge, old_source_id, old_sink_id, merged_vertex, alive) ==
  redirect_sink(edge, merged_vertex, alive)

\* The body of the loop at line 368 for one edge.
rewrite_edge(edge, old_source_id, old_sink_id, merged_vertex, alive) ==
  Bind(IF edge.sink = old_sink_id \/ edge.sink = old_source_id
       THEN redirect_sink(edge, merged_vertex, alive)
       ELSE [edge |-> edge, raised |-> FALSE],
       LAMBDA r1 :
         IF r1.raised THEN r1
         ELSE IF r1.edge.source = old_sink_id \/ r1.edge.source = old_source_id
              THEN redirect_source(r1.edge, merged_vertex, alive)
              ELSE r1)

\* The loop at line 368; it stops at the first edge whose rewrite raises.
RECURSIVE rewrite_edges(_, _, _, _, _, _)
rewrite_edges(es, i, old_source_id, old_sink_id, merged_vertex, alive) ==
  IF i > Len(es) THEN [edges |-> es, raised |-> FALSE]
  ELSE Bind(rewrite_edge(es[i], old_source_id, old_sink_id, merged_vertex, alive),
            LAMBDA r :
              Bind([es EXCEPT ![i] = r.edge], LAMBDA es2 :
                IF r.raised THEN [edges |-> es2, raised |-> TRUE]
                ELSE rewrite_edges(es2, i + 1, old_source_id, old_sink_id,
                                   merged_vertex, alive)))

\* A contraction that drops no edge at all, not even the contracted one.
edges_after_removals_none(es, max_edge) == es

\* A contraction that keeps the incoming edges of the old sink.
edges_after_removals_keeping_sink_incoming(es, max_edge) ==
  Bind(remove_all(es, <<max_edge>>), LAMBDA es1 :
    Bind(remove_all(es1, find_outgoing_edges(es1, max_edge.source)), LAMBDA es2 :
      remove_all(es2, SelectSeq(es2, LAMBDA edge :
                   edge.sink = max_edge.source /\ edge.source = max_edge.sink))))

\* Lines 338 and 345-360: the edges dropped by a contraction of max_edge.
\* The removals, with the incoming edges of the source dropped as well.
edges_after_removals_dropping_source_incoming(es, max_edge) ==
  SelectSeq(es, LAMBDA edge :
    /\ edge.source # max_edge.source
    /\ edge.sink # max_edge.sink
    /\ edge.sink # max_edge.source)

\* A contraction that keeps the outgoing edges of the old source.
edges_after_removals_keeping_source_outgoing(es, max_edge) ==
  Bind(remove_all(es, <<max_edge>>), LAMBDA es1 :
    LET edges_to_remove == SelectSeq(es1, LAMBDA edge :
                             edge.sink = max_edge.source /\ edge.source = max_edge.sink)
    IN Bind(remove_all(es1, edges_to_remove), LAMBDA es3 :
         remove_all(es3, find_incoming_edges(es3, max_edge.sink))))

edges_after_removals(es, max_edge) ==
  Bind(remove_all(es, <<max_edge>>), LAMBDA es1 :
    Bind(remove_all(es1, find_outgoing_edges(es1, max_edge.source)), LAMBDA es2 :
      LET edges_to_remove == SelectSeq(es2, LAMBDA edge :
                               edge.sink = max_edge.source /\ edge.source = max_edge.sink)
      IN Bind(remove_all(es2, edges_to_remove), LAMBDA es3 :
           remove_all(es3, find_incoming_edges(es3, max_edge.sink)))))

\* A removal that forgets the old sink.
remove_old_vertices_only_source(vs, old_source_id, old_sink_id) ==
  SelectSeq(vs, LAMBDA v : v.id # old_source_id)

\* Lines 362-363: self.vertices.remove(source); self.vertices.remove(sink).
remove_old_vertices(vs, old_source_id, old_sink_id) ==
  SelectSeq(vs, LAMBDA v : v.id # old_source_id /\ v.id # old_sink_id)

\* One iteration of the while loop, lines 324-385, for the chosen max_edge.
contract_own(vs, es, max_edge) ==
  LET old_source_id == max_edge.source
      old_sink_id == max_edge.sink
      merged_fragment == merge_fragments(get_value(vs, old_source_id),
                                         get_value(vs, old_sink_id),
                                         <<max_edge.pos_start, max_edge.pos_end>>)
  IN Bind(add_vertex(vs, merged_fragment), LAMBDA alive :
       LET merged_vertex == alive[Len(alive)]
           vs2 == remove_old_vertices(alive, old_source_id, old_sink_id)
       IN Bind(edges_after_removals(es, max_edge), LAMBDA es4 :
            Bind(rewrite_edges(es4, 1, old_source_id, old_sink_id, merged_vertex, alive),
                 LAMBDA rw :
                   [vertices |-> vs2, edges |-> rw.edges, raised |-> rw.raised,
                    merged_id |-> merged_vertex.id])))

\* A return that hands back nothing when fragments are left over.
return_own_no_partial(vs) ==
  IF Len(vs) = 1 THEN [kind |-> "sequence", value |-> vs[1].value]
  ELSE [kind |-> "none"]

\* A return that always hands back the vertex list.
return_own_single_as_list(vs) ==
  IF Len(vs) >= 1 THEN [kind |-> "list", value |-> vs]
  ELSE [kind |-> "none"]

\* Lines 392-397.
return_own(vs) ==
  IF Len(vs) = 1 THEN [kind |-> "sequence", value |-> vs[1].value]
  ELSE IF Len(vs) > 1 THEN [kind |-> "list", value |-> vs]
  ELSE [kind |-> "none"]

\* ------------------------------------------------- networkx.DiGraph, as used
\* vertices holds the nodes in insertion order; edges holds the edges so that
\* the edges of one source are in the insertion order of its adjacency.
has_node(vs, n) == \E v \in Range(vs) : v.id = n

has_edge(es, u, v) == \E e \in Range(es) : e.source = u /\ e.sink = v

\* DiGraph.add_node(n, read=...): a present node only has its attribute updated.
nx_add_node(vs, n, read) ==
  IF has_node(vs, n)
  THEN [i \in 1..Len(vs) |-> IF vs[i].id = n THEN Vertex(n, read) ELSE vs[i]]
  ELSE Append(vs, Vertex(n, read))

\* DiGraph.add_edge(u, v, **attr): a present edge only has its data updated.
nx_add_edge(es, u, v, weight, match, pos_start, pos_end) ==
  IF has_edge(es, u, v)
  THEN [i \in 1..Len(es) |->
          IF es[i].source = u /\ es[i].sink = v
          THEN Edge(0, u, v, weight, match, pos_start, pos_end) ELSE es[i]]
  ELSE Append(es, Edge(0, u, v, weight, match, pos_start, pos_end))

nx_remove_edge(es, u, v) ==
  SelectSeq(es, LAMBDA e : ~(e.source = u /\ e.sink = v))

\* DiGraph.edges(data=True): node by node, each node's adjacency in order.
RECURSIVE nx_edges_from(_, _, _)
nx_edges_from(vs, es, k) ==
  IF k > Len(vs) THEN <<>>
  ELSE find_outgoing_edges(es, vs[k].id) \o nx_edges_from(vs, es, k + 1)

nx_edges(vs, es) == Bind(<<vs, es>>, LAMBDA g : nx_edges_from(g[1], g[2], 1))

\* ------------------------------------------------------- build_overlap_graph
\* The nested loops of lines 19-33; k counts the pairs (i, j) visited and the
\* node ids are the 0-based list indices.
RECURSIVE build_overlap_graph_loop(_, _, _, _)
build_overlap_graph_loop(frags, vs, es, k) ==
  IF k >= Len(frags) * Len(frags) THEN [vertices |-> vs, edges |-> es]
  ELSE LET i == k \div Len(frags)
           j == k % Len(frags)
           fragment == frags[i + 1]
           _fragment == frags[j + 1]
       IN Bind(overlap(fragment, _fragment), LAMBDA overlap_info :
            LET overlap_exists == overlap_info.weight # 0
            IN IF i # j /\ overlap_exists
               THEN Bind(<<nx_add_node(nx_add_node(vs, i, fragment), j, _fragment),
                           nx_add_edge(es, i, j, overlap_info.weight,
                                       overlap_info.overlap,
                                       overlap_info.prefix_start,
                                       overlap_info.prefix_end)>>,
                         LAMBDA g : build_overlap_graph_loop(frags, g[1], g[2], k + 1))
               ELSE build_overlap_graph_loop(frags, vs, es, k + 1))

build_overlap_graph(frags) == build_overlap_graph_loop(frags, <<>>, <<>>, 0)

\* ------------------------------------------------------------ assembly_greedy
\* Lines 105-125 for one edge of the snapshot list(overlap_graph.edges(...)).
\* raised: KeyError of ov["prefix_start"] (the edge is already removed then), or
\* NetworkXError of remove_edge for an edge that is no longer there.
nx_rewrite_edge(es, edge, old_source, old_sink, _id_merged, alive) ==
  LET hit1 == edge.sink = old_sink \/ edge.sink = old_source
      hit2 == edge.source = old_sink \/ edge.source = old_source
  IN Bind(<<overlap(get_value(alive, edge.source), get_value(alive, _id_merged)),
            overlap(get_value(alive, _id_merged), get_value(alive, edge.sink))>>,
          LAMBDA ovs :
    LET ov1 == ovs[1]
        ov2 == ovs[2]
        raised1 == hit1 /\ (ov1.prefix_start = Missing \/ ov1.prefix_end = Missing)
    IN Bind(IF ~hit1 THEN es
            ELSE IF raised1 THEN nx_remove_edge(es, edge.source, edge.sink)
            ELSE nx_add_edge(nx_remove_edge(es, edge.source, edge.sink),
                             edge.source, _id_merged, ov1.weight, ov1.overlap,
                             ov1.prefix_start, ov1.prefix_end),
            LAMBDA es1 :
      LET gone2 == hit2 /\ ~has_edge(es1, edge.source, edge.sink)
          raised2 == hit2 /\ (gone2 \/ ov2.prefix_start = Missing
                                    \/ ov2.prefix_end = Missing)
          es2 == IF ~hit2 \/ gone2 THEN es1
                 ELSE IF raised2 THEN nx_remove_edge(es1, edge.source, edge.sink)
                 ELSE nx_add_edge(nx_remove_edge(es1, edge.source, edge.sink),
                                  _id_merged, edge.sink, ov2.weight, ov2.overlap,
                                  ov2.prefix_start, ov2.prefix_end)
      IN IF raised1 THEN [edges |-> es1, raised |-> TRUE]
         ELSE [edges |-> es2, raised |-> raised2]))

\* The loop at line 104 over the snapshot.
RECURSIVE nx_rewrite_edges(_, _, _, _, _, _, _)
nx_rewrite_edges(es, snapshot, i, old_source, old_sink, _id_merged, alive) ==
  IF i > Len(snapshot) THEN [edges |-> es, raised |-> FALSE]
  ELSE Bind(nx_rewrite_edge(es, snapshot[i], old_source, old_sink,
                            _id_merged, alive),
            LAMBDA r :
              IF r.raised THEN r
              ELSE nx_rewrite_edges(r.edges, snapshot, i + 1, old_source, old_sink,
                                    _id_merged, alive))

\* DiGraph.remove_node(n): the node and every edge that touches it.
nx_remove_node(g, n) ==
  [vertices |-> SelectSeq(g.vertices, LAMBDA v : v.id # n),
   edges |-> SelectSeq(g.edges, LAMBDA e : e.source # n /\ e.sink # n)]

\* One iteration of the while loop, lines 71-129, for the chosen max_edge.
contract_nx(vs, es, max_edge) ==
  LET old_source == max_edge.source
      old_sink == max_edge.sink
      merged_fragment == merge_fragments(get_value(vs, old_source),
                                         get_value(vs, old_sink),
                                         <<max_edge.pos_start, max_edge.pos_end>>)
      _id_merged == Max(Range(get_vertex_ids(vs))) + 1
      es1 == SelectSeq(es, LAMBDA e : e.source # old_source)
      es2 == IF has_edge(es1, old_sink, old_source)
             THEN nx_remove_edge(es1, old_sink, old_source) ELSE es1
  IN Bind(<<nx_add_node(vs, _id_merged, merged_fragment),
            SelectSeq(es2, LAMBDA e : e.sink # old_sink)>>,
          LAMBDA cut :
    LET alive == cut[1]
        es3 == cut[2]
    IN Bind(nx_rewrite_edges(es3, nx_edges(alive, es3), 1, old_source, old_sink,
                             _id_merged, alive),
            LAMBDA rw :
      LET g == nx_remove_node(nx_remove_node([vertices |-> alive,
                                              edges |-> rw.edges],
                                             old_source), old_sink)
      IN IF rw.raised
         THEN [vertices |-> alive, edges |-> rw.edges, raised |-> TRUE,
               merged_id |-> _id_merged]
         ELSE [vertices |-> g.vertices, edges |-> g.edges, raised |-> FALSE,
               merged_id |-> _id_merged]))

\* Lines 136-142.
return_nx(vs) ==
  IF Len(vs) = 1 THEN [kind |-> "sequence", value |-> vs[1].value]
  ELSE IF Len(vs) > 1 THEN [kind |-> "list", value |-> vs]
  ELSE [kind |-> "ValueError"]

\* ------------------------------------------------------------ orientation
COMPLEMENTS ==
  [l \in Alphabet |->
     CASE l = "A" -> "T" [] l = "G" -> "C" [] l = "C" -> "G" [] l = "T" -> "A"]

\* What stands for the KeyError of COMPLEMENTS[l] where a string is expected.
KeyError == <<"KeyError">>

\* A table in which C is its own complement.
complement_with_table_slip(fragment) ==
  IF \E i \in 1..Len(fragment) : fragment[i] \notin DOMAIN COMPLEMENTS
  THEN KeyError
  ELSE LET c == [i \in 1..Len(fragment) |->
                   IF fragment[i] = "C" THEN "C" ELSE COMPLEMENTS[fragment[i]]]
       IN [i \in 1..Len(c) |-> c[Len(c) + 1 - i]]

complement(fragment) ==
  IF \E i \in 1..Len(fragment) : fragment[i] \notin DOMAIN COMPLEMENTS
  THEN KeyError
  ELSE LET c == [i \in 1..Len(fragment) |-> COMPLEMENTS[fragment[i]]]
       IN [i \in 1..Len(c) |-> c[Len(c) + 1 - i]]

weight(fragment_one, fragment_two) == overlap(fragment_one, fragment_two).weight

same(fragment_one, fragment_two) ==
  Max({weight(fragment_one, fragment_two), weight(fragment_two, fragment_one)})

\* Missing stands for the KeyError that complement(fragment_two) raised.
opp(fragment_one, fragment_two) ==
  Bind(complement(fragment_two), LAMBDA c :
    IF c = KeyError THEN Missing
    ELSE Max({weight(fragment_one, c), weight(c, fragment_one)}))

\* list.remove(f): the list without the first element equal to f.
remove_first(seq, f) ==
  LET k == CHOOSE i \in 1..Len(seq) :
             seq[i] = f /\ \A j \in 1..(i - 1) : seq[j] # f
  IN SubSeq(seq, 1, k - 1) \o SubSeq(seq, k + 1, Len(seq))

_get_orientations_input(frags) ==
  [i \in 1..Len(frags) |-> <<frags[i], remove_first(frags, frags[i])>>]

\* The locals sum_same and sum_opp before the while loop has bound them.
Unbound == [sum_same |-> Missing, sum_opp |-> Missing, raised |-> FALSE]

\* The loop `for fragment in O`, lines 140-145, from sums that start at 0.
RECURSIVE orientation_sums(_, _, _, _)
orientation_sums(O, fragment_to_test, k, sums) ==
  IF k > Len(O) \/ sums.raised THEN sums
  ELSE Bind(<<opp(O[k], fragment_to_test), opp(fragment_to_test, O[k])>>,
            LAMBDA opps :
    Bind(IF opps[1] = Missing \/ opps[2] = Missing
         THEN [sums EXCEPT !.raised = TRUE]
         ELSE [sum_same |-> sums.sum_same + same(O[k], fragment_to_test)
                                          + same(fragment_to_test, O[k]),
               sum_opp |-> sums.sum_opp + opps[1] + opps[2],
               raised |-> FALSE],
         LAMBDA sums2 : orientation_sums(O, fragment_to_test, k + 1, sums2)))

\* The loop `while others`, lines 136-149; last holds sum_same and sum_opp as
\* the latest iteration left them.
RECURSIVE calc_orientation_loop(_, _, _, _)
calc_orientation_loop(O, others, k, last) ==
  IF k > Len(others) THEN [O |-> O, last |-> last]
  ELSE Bind(orientation_sums(O, others[k], 1,
                             [sum_same |-> 0, sum_opp |-> 0, raised |-> FALSE]),
            LAMBDA sums :
    IF sums.raised THEN [O |-> O, last |-> sums]
    ELSE Bind(Append(O, IF sums.sum_same < sums.sum_opp
                        THEN complement(others[k]) ELSE others[k]),
              LAMBDA O2 : calc_orientation_loop(O2, others, k + 1, sums)))

calc_orientation(start_fragment, frags) ==
  Bind(calc_orientation_loop(<<start_fragment>>, frags, 1, Unbound), LAMBDA r :
    IF r.last = Unbound THEN [kind |-> "UnboundLocalError"]
    ELSE IF r.last.raised THEN [kind |-> "KeyError"]
    ELSE [kind |-> "ok", O |-> r.O,
          weight |-> r.last.sum_same + r.last.sum_opp])

\* The loop of lines 116-118 over to_calculate; an exception ends it.
RECURSIVE orientation_trials(_, _, _)
orientation_trials(to_calculate, k, acc) ==
  IF k > Len(to_calculate) THEN [kind |-> "ok", orientations_with_weight |-> acc]
  ELSE Bind(calc_orientation(to_calculate[k][1], to_calculate[k][2]), LAMBDA t :
    IF t.kind # "ok"
    THEN [kind |-> t.kind, orientations_with_weight |-> acc]
    ELSE orientation_trials(to_calculate, k + 1,
                            Append(acc, [O |-> t.O, weight |-> t.weight])))

get_good_orientation(frags) ==
  Bind(orientation_trials(_get_orientations_input(frags), 1, <<>>), LAMBDA t :
    IF t.kind # "ok" THEN t
    ELSE IF t.orientations_with_weight = <<>>
    THEN [kind |-> "IndexError", orientations_with_weight |-> <<>>]
    ELSE [kind |-> "list",
          value |-> sorted_by_weight(t.orientations_with_weight)
                      [Len(t.orientations_with_weight)].O,
          orientations_with_weight |-> t.orientations_with_weight])

\* ------------------------------------------------- the Hamiltonian strategy
\* A path is the sequence of its vertex ids; <<>> stands for the None that
\* hamilton returns when its loop ends without a candidate.
sinks_of(es) == [i \in 1..Len(es) |-> es[i].sink]

\* exercise_two/graph/utils.py hamilton.  visited is one list shared by the
\* whole search, so it is returned along with the path; path is copied for
\* every recursive call.
RECURSIVE hamilton(_, _, _, _, _)
RECURSIVE hamilton_successors(_, _, _, _, _, _)
hamilton(es, vertex_count, start_vertex, path_in, visited) ==
  Bind(IF start_vertex \in Range(path_in) THEN path_in
       ELSE Append(path_in, start_vertex), LAMBDA path :
    IF Len(path) = vertex_count THEN [path |-> path, visited |-> visited]
    ELSE hamilton_successors(es, vertex_count,
                             sinks_of(find_outgoing_edges(es, start_vertex)),
                             1, path, visited))

\* The loop `for successor in sucessor_vertices`, lines 178-189.
hamilton_successors(es, vertex_count, sucessor_vertices, k, path, visited) ==
  IF k > Len(sucessor_vertices) THEN [path |-> <<>>, visited |-> visited]
  ELSE IF sucessor_vertices[k] \in Range(visited)
  THEN hamilton_successors(es, vertex_count, sucessor_vertices, k + 1, path,
                           visited)
  ELSE Bind(hamilton(es, vertex_count, sucessor_vertices[k], path,
                     Append(visited, sucessor_vertices[k])), LAMBDA candidate :
         IF candidate.path # <<>> THEN candidate
         ELSE hamilton_successors(es, vertex_count, sucessor_vertices, k + 1,
                                  path, candidate.visited))

\* OverlapGraph.get_all_hamilton_paths: one search per vertex, None removed.
RECURSIVE get_all_hamilton_paths_from(_, _, _)
get_all_hamilton_paths_from(vs, es, k) ==
  IF k > Len(vs) THEN <<>>
  ELSE Bind(hamilton(es, Len(vs), vs[k].id, <<>>, <<>>).path, LAMBDA res :
         (IF res = <<>> THEN <<>> ELSE <<res>>)
         \o get_all_hamilton_paths_from(vs, es, k + 1))

get_all_hamilton_paths(vs, es) == get_all_hamilton_paths_from(vs, es, 1)

\* OverlapGraph.find_edges_to_path meets a hop of path that is no edge: the
\* entry for it is None.
find_edges_to_path_has_none(es, path) ==
  \E i \in 1..(Len(path) - 1) : ~has_edge(es, path[i], path[i + 1])

\* OverlapGraph.merge_by_hamiltonian_path: every way through it ends in an
\* exception.  Rendering a path reads e.source of each entry of
\* find_edges_to_path; the key path[0][-1] of the sort subscripts a Vertex;
\* sorted(...)[-1] of no path at all is out of range.
merge_by_hamiltonian_path(vs, es) ==
  Bind(get_all_hamilton_paths(vs, es), LAMBDA paths :
    [hamiltonian_paths |-> paths,
     kind |-> IF \E i \in 1..Len(paths) : find_edges_to_path_has_none(es, paths[i])
              THEN "AttributeError"
              ELSE IF paths = <<>> THEN "IndexError" ELSE "TypeError"])

\* assembly_with_nx/graph/utils.py hamilton.  path and visited are the caller's
\* lists, pushed and popped around each recursive call, so the call returns
\* them as it leaves them, next to its return value (candidate; <<>> is None).
RECURSIVE nx_hamilton(_, _, _, _, _)
RECURSIVE nx_hamilton_successors(_, _, _, _, _, _)
\* The loop without the two pops after a failed candidate.
nx_hamilton_successors_without_pop(es, vertex_count, sucessor_vertices, k, path, visited) ==
  IF k > Len(sucessor_vertices)
  THEN [candidate |-> <<>>, path |-> path, visited |-> visited]
  ELSE IF sucessor_vertices[k] \in Range(visited)
  THEN nx_hamilton_successors(es, vertex_count, sucessor_vertices, k + 1, path,
                              visited)
  ELSE Bind(nx_hamilton(es, vertex_count, sucessor_vertices[k],
                        Append(path, sucessor_vertices[k]),
                        Append(visited, sucessor_vertices[k])),
            LAMBDA r :
         IF r.candidate # <<>> THEN r
         ELSE nx_hamilton_successors(es, vertex_count, sucessor_vertices, k + 1,
                                     r.path, r.visited))

nx_hamilton(es, vertex_count, start_vertex, path, visited) ==
  IF Len(path) = vertex_count
  THEN [candidate |-> path, path |-> path, visited |-> visited]
  ELSE nx_hamilton_successors(es, vertex_count,
                              sinks_of(find_outgoing_edges(es, start_vertex)),
                              1, path, visited)

\* The loop `for successor in sucessor_vertices`, lines 232-243.
nx_hamilton_successors(es, vertex_count, sucessor_vertices, k, path, visited) ==
  IF k > Len(sucessor_vertices)
  THEN [candidate |-> <<>>, path |-> path, visited |-> visited]
  ELSE IF sucessor_vertices[k] \in Range(visited)
  THEN nx_hamilton_successors(es, vertex_count, sucessor_vertices, k + 1, path,
                              visited)
  ELSE Bind(nx_hamilton(es, vertex_count, sucessor_vertices[k],
                        Append(path, sucessor_vertices[k]),
                        Append(visited, sucessor_vertices[k])),
            LAMBDA r :
         IF r.candidate # <<>> THEN r
         ELSE nx_hamilton_successors(es, vertex_count, sucessor_vertices, k + 1,
                                     SubSeq(r.path, 1, Len(r.path) - 1),
                                     SubSeq(r.visited, 1, Len(r.visited) - 1)))

\* Lines 163-169 of assembly_hamilton: one search per node, None removed.
RECURSIVE nx_hamilton_paths_from(_, _, _)
nx_hamilton_paths_from(vs, es, k) ==
  IF k > Len(vs) THEN <<>>
  ELSE Bind(nx_hamilton(es, Len(vs), vs[k].id, <<vs[k].id>>,
                        <<vs[k].id>>).candidate,
            LAMBDA none_or_hampath :
         (IF none_or_hampath = <<>> THEN <<>> ELSE <<none_or_hampath>>)
         \o nx_hamilton_paths_from(vs, es, k + 1))

edge_weight(es, u, v) ==
  (CHOOSE e \in Range(es) : e.source = u /\ e.sink = v).weight

\* Lines 178-181: the weights along ham[1..i], summed.
RECURSIVE summed_weight(_, _, _)
summed_weight(es, ham, i) ==
  IF i <= 1 THEN 0
  ELSE summed_weight(es, ham, i - 1) + edge_weight(es, ham[i - 1], ham[i])

\* Lines 173-182: the entry tmp of one path; weight is its "summed_weight".
hampath_entry(es, ham, ham_nr) ==
  [weight |-> summed_weight(es, ham, Len(ham)),
   hampath_index |-> ham_nr,
   node_pairs |-> [i \in 1..(Len(ham) - 1) |-> <<ham[i], ham[i + 1]>>]]

\* assembly_hamilton as the package is imported: the paths, the pick and the
\* edges left when the name `graph` of line 217 is looked up.
assembly_hamilton(vs, es) ==
  Bind(nx_hamilton_paths_from(vs, es, 1), LAMBDA paths :
    IF paths = <<>>
    THEN [kind |-> "IndexError", hamiltonian_paths |-> paths,
          max_path |-> Pending, edges |-> es]
    ELSE Bind(sorted_by_weight([i \in 1..Len(paths) |->
                                  hampath_entry(es, paths[i], i - 1)])[Len(paths)],
              LAMBDA picked :
           [kind |-> "NameError", hamiltonian_paths |-> paths,
            max_path |-> picked,
            edges |-> SelectSeq(es, LAMBDA e :
                        <<e.source, e.sink>> \in Range(picked.node_pairs))]))

\* ------------------------------------------------------------- the assembler
\* The program has been started; nothing is read yet.
Init ==
  /\ impl = "unset"
  /\ random_tiebreak = FALSE
  /\ fragments = <<>>
  /\ vertices = <<>>
  /\ edges = <<>>
  /\ pc = "init"
  /\ p = 0
  /\ result = Pending
  /\ run = 1
  /\ trace = <<>>
  /\ first_run = Pending
  /\ assigned_ids = {}
  /\ s_one = <<>>
  /\ s_two = <<>>
  /\ ov = Pending
  /\ strand = <<>>
  /\ c_one = <<>>
  /\ c_two = <<>>
  /\ orientations_with_weight = <<>>
  /\ max_weight_orientation = Pending
  /\ print_graph = FALSE
  /\ print_only_result = FALSE
  /\ shown = <<>>
  /\ hamiltonian_paths = <<>>
  /\ max_path = Pending
  /\ argument = Pending
  /\ returned = Pending

\* assembler.py of either package: the command line is parsed and the
\* fragments are read from the file.  Only exercise_two has --random; flags
\* holds the values --print_graphs and --print_only_result are given.
ParseArgsAndRead(flags) ==
  /\ pc = "init"
  /\ impl' \in {"own", "nx"}
  /\ random_tiebreak' \in (IF impl' = "own" THEN BOOLEAN ELSE {FALSE})
  /\ print_graph' \in flags
  /\ print_only_result' \in flags
  /\ fragments' \in FragmentLists
  /\ pc' = "start"
  /\ UNCHANGED <<vertices, edges, p, result, run, trace, first_run,
                 assigned_ids, shown, call_vars>>

\* A start without --print_graphs and without --print_only_result.
ReadFragments == ParseArgsAndRead({FALSE})

\* One call of show_graph(edges, vertices, name=f"graph_{_p}").
show_graph(es, vs, _p) == [name |-> _p, vertices |-> vs, edges |-> es]

\* exercise_two/assembler.py line 54, and merge_by_arbitrary_tiebreaks up to its
\* loop.
BuildOwn ==
  /\ pc = "start"
  /\ impl = "own"
  /\ \E g \in {build_from_fragments(fragments)} :
        /\ vertices' = g.vertices
        /\ edges' = g.edges
        /\ assigned_ids' = Range(get_vertex_ids(g.vertices))
        /\ shown' = IF print_graph
                    THEN Append(shown, show_graph(g.edges, g.vertices, 0))
                    ELSE shown
  /\ pc' = "loop"
  /\ UNCHANGED <<impl, random_tiebreak, fragments, p, result, run, trace,
                 first_run, print_graph, print_only_result, call_vars>>

\* assembly_with_nx/assembler.py line 56, and assembly_greedy up to its loop.
BuildNx ==
  /\ pc = "start"
  /\ impl = "nx"
  /\ \E g \in {build_overlap_graph(fragments)} :
        /\ vertices' = g.vertices
        /\ edges' = g.edges
        /\ assigned_ids' = Range(get_vertex_ids(g.vertices))
        /\ shown' = IF print_only_result \/ print_graph
                    THEN Append(shown, show_graph(g.edges, g.vertices, 0))
                    ELSE shown
  /\ pc' = "loop"
  /\ UNCHANGED <<impl, random_tiebreak, fragments, p, result, run, trace,
                 first_run, print_graph, print_only_result, call_vars>>

\* One iteration of `while self.edges:` in merge_by_arbitrary_tiebreaks.
ContractOwn ==
  /\ pc = "loop"
  /\ impl = "own"
  /\ edges # <<>>
  /\ p <= Len(fragments)   \* cap of the search; p <= n - 1 in every run
  /\ \E max_edge \in max_edge_candidates(edges, random_tiebreak) :
       /\ trace' = Append(trace, <<max_edge.source, max_edge.sink>>)
       /\ \E c \in {contract_own(vertices, edges, max_edge)} :
          /\ vertices' = c.vertices
          /\ edges' = c.edges
          /\ pc' = IF c.raised THEN "error" ELSE "loop"
          /\ p' = IF c.raised THEN p ELSE p + 1
          /\ assigned_ids' = assigned_ids \cup {c.merged_id}
          /\ shown' = IF ~c.raised /\ (print_only_result \/ print_graph)
                      THEN Append(shown, show_graph(c.edges, c.vertices, p + 1))
                      ELSE shown
  /\ UNCHANGED <<impl, random_tiebreak, fragments, result, run, first_run,
                 print_graph, print_only_result, call_vars>>

\* One iteration of `while overlap_graph.number_of_edges() != 0:` in
\* assembly_greedy.
ContractNx ==
  /\ pc = "loop"
  /\ impl = "nx"
  /\ edges # <<>>
  /\ p <= Len(fragments)   \* cap of the search; p <= n - 1 in every run
  /\ \E es \in {nx_edges(vertices, edges)} :
     \E max_edge \in max_edge_candidates(es, FALSE) :
       /\ trace' = Append(trace, <<max_edge.source, max_edge.sink>>)
       /\ \E c \in {contract_nx(vertices, edges, max_edge)} :
          /\ vertices' = c.vertices
          /\ edges' = c.edges
          /\ pc' = IF c.raised THEN "error" ELSE "loop"
          /\ p' = IF c.raised THEN p ELSE p + 1
          /\ assigned_ids' = assigned_ids \cup {c.merged_id}
          /\ shown' = IF ~c.raised /\ print_graph
                      THEN Append(shown, show_graph(c.edges, c.vertices, p + 1))
                      ELSE shown
  /\ UNCHANGED <<impl, random_tiebreak, fragments, result, run, first_run,
                 print_graph, print_only_result, call_vars>>

\* The loop of merge_by_arbitrary_tiebreaks is left and the method returns.
ReturnOwn ==
  /\ pc = "loop"
  /\ impl = "own"
  /\ edges = <<>>
  /\ result' = return_own(vertices)
  /\ pc' = "done"
  /\ UNCHANGED <<impl, random_tiebreak, fragments, vertices, edges, p, run,
                 trace, first_run, assigned_ids, print_vars, call_vars>>

\* The loop of assembly_greedy is left and the function returns or raises.
ReturnNx ==
  /\ pc = "loop"
  /\ impl = "nx"
  /\ edges = <<>>
  /\ result' = return_nx(vertices)
  /\ pc' = "done"
  /\ UNCHANGED <<impl, random_tiebreak, fragments, vertices, edges, p, run,
                 trace, first_run, assigned_ids, print_vars, call_vars>>

\* The program is started a second time on the same file, without --random.
Rerun ==
  /\ pc = "done"
  /\ run = 1
  /\ ~random_tiebreak
  /\ run' = 2
  /\ first_run' = [trace |-> trace, result |-> result]
  /\ vertices' = <<>>
  /\ edges' = <<>>
  /\ pc' = "start"
  /\ p' = 0
  /\ result' = Pending
  /\ trace' = <<>>
  /\ assigned_ids' = {}
  /\ shown' = <<>>
  /\ UNCHANGED <<impl, random_tiebreak, fragments, print_graph,
                 print_only_result, call_vars>>

Next ==
  \/ ReadFragments
  \/ BuildOwn
  \/ BuildNx
  \/ ContractOwn
  \/ ContractNx
  \/ ReturnOwn
  \/ ReturnNx
  \/ Rerun

Spec == Init /\ [][Next]_vars

\* The program has a next statement to execute: it is about to read, build,
\* test the loop condition, or be started again.
CanStep ==
  \/ pc \in {"init", "start"}
  \/ pc = "loop" /\ (edges = <<>> \/ p <= Len(fragments))
  \/ pc = "done" /\ run = 1 /\ ~random_tiebreak

\* Some step of the program: every step of Next moves pc or counts in p.
Progress ==
  /\ CanStep
  /\ pc' \in {"init", "start", "loop", "done", "error"}
  /\ p' \in 0..(MaxFrags + 1)
  /\ (pc' # pc \/ p' # p)

\* The assembler is sequential, synchronous code: while it has a next
\* statement, the interpreter executes it.
FairSpec == Spec /\ WF_<<pc, p>>(Progress)

\* ------------------------------------------- one run with the printing flags
\* A start with any combination of --print_graphs and --print_only_result.
ReadFragmentsPrinting == ParseArgsAndRead(BOOLEAN)

NextPrint ==
  \/ ReadFragmentsPrinting
  \/ BuildOwn
  \/ BuildNx
  \/ ContractOwn
  \/ ContractNx
  \/ ReturnOwn
  \/ ReturnNx

SpecPrint == Init /\ [][NextPrint]_vars

\* ---------------------------------------- one run of the Hamiltonian strategy
\* OverlapGraph.merge_by_hamiltonian_path on the graph as built.
HamiltonOwn ==
  /\ pc = "loop"
  /\ impl = "own"
  /\ p = 0
  /\ \E r \in {merge_by_hamiltonian_path(vertices, edges)} :
        /\ hamiltonian_paths' = r.hamiltonian_paths
        /\ result' = [kind |-> r.kind]
  /\ pc' = "hamilton"
  /\ UNCHANGED <<impl, random_tiebreak, fragments, vertices, edges, p, run,
                 trace, first_run, assigned_ids, print_vars, scorer_vars,
                 complement_vars, orientation_vars, max_path, method_vars>>

\* assembly_hamilton on the graph as built.
HamiltonNx ==
  /\ pc = "loop"
  /\ impl = "nx"
  /\ p = 0
  /\ \E r \in {assembly_hamilton(vertices, edges)} :
        /\ hamiltonian_paths' = r.hamiltonian_paths
        /\ max_path' = r.max_path
        /\ edges' = r.edges
        /\ result' = [kind |-> r.kind]
  /\ pc' = "hamilton"
  /\ UNCHANGED <<impl, random_tiebreak, fragments, vertices, p, run, trace,
                 first_run, assigned_ids, print_vars, scorer_vars,
                 complement_vars, orientation_vars, method_vars>>

NextHamilton ==
  \/ ReadFragments
  \/ BuildOwn
  \/ BuildNx
  \/ HamiltonOwn
  \/ HamiltonNx

SpecHamilton == Init /\ [][NextHamilton]_vars

\* ------------------------------------------------ a stand-alone call of overlap
InitOverlap ==
  /\ s_one \in ScorerStrings
  /\ s_two \in ScorerStrings
  /\ ov = Pending
  /\ impl = "own"
  /\ random_tiebreak = FALSE
  /\ fragments = <<>>
  /\ vertices = <<>>
  /\ edges = <<>>
  /\ pc = "scorer"
  /\ p = 0
  /\ result = Pending
  /\ run = 1
  /\ trace = <<>>
  /\ first_run = Pending
  /\ assigned_ids = {}
  /\ strand = <<>>
  /\ c_one = <<>>
  /\ c_two = <<>>
  /\ orientations_with_weight = <<>>
  /\ max_weight_orientation = Pending
  /\ print_graph = FALSE
  /\ print_only_result = FALSE
  /\ shown = <<>>
  /\ hamiltonian_paths = <<>>
  /\ max_path = Pending
  /\ argument = Pending
  /\ returned = Pending

CallOverlap ==
  /\ pc = "scorer"
  /\ ov = Pending
  /\ ov' = overlap(s_one, s_two)
  /\ UNCHANGED <<graph_vars, s_one, s_two, complement_vars, orientation_vars,
                 print_vars, hamilton_vars,
                 method_vars>>

NextOverlap == CallOverlap

SpecOverlap == InitOverlap /\ [][NextOverlap]_vars

\* --------------------------------------------- stand-alone calls of complement
\* No assembler run and no other call is in progress.
OnlyThisCall ==
  /\ impl = "unset"
  /\ random_tiebreak = FALSE
  /\ vertices = <<>>
  /\ edges = <<>>
  /\ p = 0
  /\ result = Pending
  /\ run = 1
  /\ trace = <<>>
  /\ first_run = Pending
  /\ assigned_ids = {}
  /\ s_one = <<>>
  /\ s_two = <<>>
  /\ ov = Pending
  /\ print_graph = FALSE
  /\ print_only_result = FALSE
  /\ shown = <<>>
  /\ hamiltonian_paths = <<>>
  /\ max_path = Pending
  /\ argument = Pending
  /\ returned = Pending

InitComplement ==
  /\ strand \in DnaStrings
  /\ c_one = <<>>
  /\ c_two = <<>>
  /\ pc = "complement"
  /\ fragments = <<>>
  /\ orientations_with_weight = <<>>
  /\ max_weight_orientation = Pending
  /\ OnlyThisCall

CallComplement ==
  /\ pc = "complement"
  /\ c_one' = complement(strand)
  /\ pc' = "complemented"
  /\ UNCHANGED <<impl, random_tiebreak, fragments, vertices, edges, p, result,
                 run, trace, first_run, assigned_ids, scorer_vars, strand,
                 c_two, orientation_vars, print_vars, hamilton_vars,
                 method_vars>>

CallComplementAgain ==
  /\ pc = "complemented"
  /\ c_two' = complement(c_one)
  /\ pc' = "complemented twice"
  /\ UNCHANGED <<impl, random_tiebreak, fragments, vertices, edges, p, result,
                 run, trace, first_run, assigned_ids, scorer_vars, strand,
                 c_one, orientation_vars, print_vars, hamilton_vars,
                 method_vars>>

NextComplement == CallComplement \/ CallComplementAgain

SpecComplement == InitComplement /\ [][NextComplement]_vars

\* ------------------------------------ stand-alone calls of get_good_orientation
InitOrientation ==
  /\ fragments \in FragmentLists
  /\ orientations_with_weight = <<>>
  /\ max_weight_orientation = Pending
  /\ pc = "orientation"
  /\ strand = <<>>
  /\ c_one = <<>>
  /\ c_two = <<>>
  /\ OnlyThisCall

CallGetGoodOrientation ==
  /\ pc = "orientation"
  /\ \E r \in {get_good_orientation(fragments)} :
        /\ orientations_with_weight' = r.orientations_with_weight
        /\ max_weight_orientation' =
             IF r.kind = "list" THEN [kind |-> "list", value |-> r.value]
             ELSE [kind |-> r.kind]
  /\ pc' = "oriented"
  /\ UNCHANGED <<impl, random_tiebreak, fragments, vertices, edges, p, result,
                 run, trace, first_run, assigned_ids, scorer_vars,
                 complement_vars, print_vars, hamilton_vars,
                 method_vars>>

NextOrientation == CallGetGoodOrientation

SpecOrientation == InitOrientation /\ [][NextOrientation]_vars

\* -------------------------- remove_vertex and get_vertex on the graph as built
\* The ids a caller asks for: those of the vertices, and two that no vertex has.
AskedIds == 0..(MaxFrags + 1)

CallRemoveVertex ==
  /\ pc = "loop"
  /\ impl = "own"
  /\ p = 0
  /\ \E id \in AskedIds :
       \E r \in {remove_vertex(vertices, edges, id)} :
          /\ argument' = id
          /\ returned' = r.returned
          /\ vertices' = r.vertices
          /\ edges' = r.edges
  /\ pc' = "removed"
  /\ UNCHANGED <<impl, random_tiebreak, fragments, p, result, run, trace,
                 first_run, assigned_ids, print_vars, scorer_vars,
                 complement_vars, orientation_vars, hamilton_vars>>

CallGetVertex ==
  /\ pc = "loop"
  /\ impl = "own"
  /\ p = 0
  /\ \E id \in AskedIds :
       /\ argument' = id
       /\ returned' = get_vertex(vertices, edges, id)
  /\ pc' = "got"
  /\ UNCHANGED <<impl, random_tiebreak, fragments, vertices, edges, p, result,
                 run, trace, first_run, assigned_ids, print_vars, scorer_vars,
                 complement_vars, orientation_vars, hamilton_vars>>

NextVertexMethods ==
  \/ ReadFragments
  \/ BuildOwn
  \/ CallRemoveVertex
  \/ CallGetVertex

SpecVertexMethods == Init /\ [][NextVertexMethods]_vars

\* ------------------------- stand-alone calls of hamilton (assembly_with_nx)
\* The ordered pairs of the nodes 0..n-1, in ascending order.
NodePairs(n) == [k \in 1..(n * n) |-> <<(k - 1) \div n, (k - 1) % n>>]

Reversed(seq) == [i \in 1..Len(seq) |-> seq[Len(seq) + 1 - i]]

\* A DiGraph on the nodes 0..n-1 with the chosen edges, and a loop at every
\* node if loops; the adjacency of each node in ascending order of the
\* neighbour, or in descending order if backwards.
digraph_edges(n, chosen, loops, backwards) ==
  LET pairs == SelectSeq(NodePairs(n), LAMBDA q :
                 q \in chosen \/ (loops /\ q[1] = q[2]))
      in_order == IF backwards THEN Reversed(pairs) ELSE pairs
  IN [i \in 1..Len(in_order) |->
        Edge(0, in_order[i][1], in_order[i][2], 1, None, 0, 1)]

InitNxHamilton ==
  /\ \E n \in 1..MaxNodes :
       /\ vertices = [i \in 1..n |-> Vertex(i - 1, <<>>)]
       /\ argument \in 0..(n - 1)
       /\ \E chosen \in SUBSET { q \in (0..(n - 1)) \X (0..(n - 1)) : q[1] # q[2] } :
            \E loops \in BOOLEAN, backwards \in BOOLEAN :
              edges = digraph_edges(n, chosen, loops, backwards)
  /\ returned = Pending
  /\ pc = "hamilton call"
  /\ impl = "nx"
  /\ random_tiebreak = FALSE
  /\ fragments = <<>>
  /\ p = 0
  /\ result = Pending
  /\ run = 1
  /\ trace = <<>>
  /\ first_run = Pending
  /\ assigned_ids = {}
  /\ s_one = <<>>
  /\ s_two = <<>>
  /\ ov = Pending
  /\ strand = <<>>
  /\ c_one = <<>>
  /\ c_two = <<>>
  /\ orientations_with_weight = <<>>
  /\ max_weight_orientation = Pending
  /\ print_graph = FALSE
  /\ print_only_result = FALSE
  /\ shown = <<>>
  /\ hamiltonian_paths = <<>>
  /\ max_path = Pending

\* hamilton(graph, n, v, path=[v], visited=[v]), as assembly_hamilton calls it.
CallNxHamilton ==
  /\ pc = "hamilton call"
  /\ returned' = nx_hamilton(edges, Len(vertices), argument, <<argument>>,
                             <<argument>>)
  /\ pc' = "hamilton returned"
  /\ UNCHANGED <<impl, random_tiebreak, fragments, vertices, edges, p, result,
                 run, trace, first_run, assigned_ids, scorer_vars,
                 complement_vars, orientation_vars, print_vars, hamilton_vars,
                 argument>>

NextNxHamilton == CallNxHamilton

SpecNxHamilton == InitNxHamilton /\ [][NextNxHamilton]_vars

\* ------------------------------------------------ the span of an edge, alone
\* The slice bounds a span is made of: positions in a sequence that a merge of
\* two fragments can reach.
Positions == 0..(2 * MaxLen)

Spans == { sp \in Positions \X Positions : sp[1] <= sp[2] }

\* Edge(1, source, sink, pos_start=start, pos_end=end) between two vertices.
InitMatchPosition ==
  /\ vertices = <<Vertex(1, <<>>), Vertex(2, <<>>)>>
  /\ \E sp \in Spans :
       /\ argument = sp
       /\ edges = <<Edge(1, 1, 2, None, None, sp[1], sp[2])>>
  /\ returned = Pending
  /\ pc = "edge made"
  /\ impl = "own"
  /\ random_tiebreak = FALSE
  /\ fragments = <<>>
  /\ p = 0
  /\ result = Pending
  /\ run = 1
  /\ trace = <<>>
  /\ first_run = Pending
  /\ assigned_ids = {}
  /\ s_one = <<>>
  /\ s_two = <<>>
  /\ ov = Pending
  /\ strand = <<>>
  /\ c_one = <<>>
  /\ c_two = <<>>
  /\ orientations_with_weight = <<>>
  /\ max_weight_orientation = Pending
  /\ print_graph = FALSE
  /\ print_only_result = FALSE
  /\ shown = <<>>
  /\ hamiltonian_paths = <<>>
  /\ max_path = Pending

\* edge.set_match_position((start, end))
CallSetMatchPosition ==
  /\ pc \in {"edge made", "position set", "position got"}
  /\ \E sp \in Spans :
       /\ argument' = sp
       /\ edges' = <<set_match_position(edges[1], sp)>>
  /\ pc' = "position set"
  /\ UNCHANGED <<impl, random_tiebreak, fragments, vertices, p, result, run,
                 trace, first_run, assigned_ids, scorer_vars, complement_vars,
                 orientation_vars, print_vars, hamilton_vars, returned>>

\* edge.get_match_position()
CallGetMatchPosition ==
  /\ pc \in {"edge made", "position set"}
  /\ returned' = Returned("tuple", get_match_position(edges[1]))
  /\ pc' = "position got"
  /\ UNCHANGED <<impl, random_tiebreak, fragments, vertices, edges, p, result,
                 run, trace, first_run, assigned_ids, scorer_vars,
                 complement_vars, orientation_vars, print_vars, hamilton_vars,
                 argument>>

NextMatchPosition == CallSetMatchPosition \/ CallGetMatchPosition

SpecMatchPosition == InitMatchPosition /\ [][NextMatchPosition]_vars

\* =================================================================== claims
\* Words the claims are stated in.
IsPrefix(x, b) == Len(x) <= Len(b) /\ SubSeq(b, 1, Len(x)) = x

\* Length of the longest suffix of a that is also a prefix of b.
LongestAffix(a, b) ==
  Max({ k \in 0..Min2(Len(a), Len(b)) : IsPrefix(SubSeq(a, Len(a) - k + 1, Len(a)), b) })

IsSubstring(x, y) ==
  \E k \in 0..(Len(y) - Len(x)) : SubSeq(y, k + 1, k + Len(x)) = x

Built == pc \in {"loop", "done", "error"}

Present(id) == \E v \in Range(vertices) : v.id = id

\* C1: for all strings a and b, the empty string and strings of different
\* lengths included, overlap(a, b) returns and its weight is the length of the
\* longest suffix of a that is also a prefix of b; the weight is 0 when no
\* non-empty suffix of a is a prefix of b and whenever a or b is empty.
C1_OverlapWeight ==
  (pc = "scorer" /\ ov # Pending) =>
     /\ ov.weight = LongestAffix(s_one, s_two)
     /\ (s_one = <<>> \/ s_two = <<>>) => ov.weight = 0
     /\ (\A k \in 1..Len(s_one) : ~IsPrefix(SliceFrom(s_one, k - 1), s_two))
          => ov.weight = 0

\* overlap has returned the whole shorter string as the match of two strings
\* of different lengths.
C1_Witness ==
  /\ pc = "scorer" /\ ov # Pending
  /\ Len(s_one) > Len(s_two)
  /\ ov.weight = Len(s_two)
  /\ ov.weight >= 2

\* C2: after build_from_fragments and any number of greedy contractions, the
\* weight, match and (pos_start, pos_end) of every edge are what overlap
\* returns for the current sequences of its endpoints: no edge is stale.
C2_NoStaleEdge ==
  (Built /\ impl = "own") =>
     \A edge \in Range(edges) :
        /\ Present(edge.source) /\ Present(edge.sink)
        /\ LET o == overlap(get_value(vertices, edge.source),
                            get_value(vertices, edge.sink))
           IN /\ edge.weight = o.weight
              /\ edge.match = o.overlap
              /\ <<edge.pos_start, edge.pos_end>> = <<o.prefix_start, o.prefix_end>>

\* A contraction has redirected an edge to the merged vertex.
C2_Witness ==
  /\ impl = "own" /\ pc = "loop" /\ p >= 1
  /\ \E edge \in Range(edges) :
        edge.source = Max(assigned_ids) \/ edge.sink = Max(assigned_ids)

\* The sequences a returned result holds.
ResultSequences ==
  IF result.kind = "sequence" THEN {result.value}
  ELSE IF result.kind = "list" THEN { v.value : v \in Range(result.value) }
  ELSE {}

\* C3: for every fragment list given to build_from_fragments and then
\* merge_by_arbitrary_tiebreaks, in either tie-break mode, every input fragment
\* is a contiguous substring of some sequence of the result; a result that is
\* a single sequence is at most as long as the fragments together and at least
\* as long as the longest of them; ["ATCG", "CGTA", "TAGG"] ends in one vertex.
C3_FragmentsKept ==
  (impl = "own" /\ pc = "done") =>
     /\ \A i \in 1..Len(fragments) :
           \E seq \in ResultSequences : IsSubstring(fragments[i], seq)
     /\ result.kind = "sequence" =>
           /\ Len(result.value) <= SumLen(fragments, Len(fragments))
           /\ \A i \in 1..Len(fragments) : Len(result.value) >= Len(fragments[i])
     /\ fragments = ExampleFragments =>
           result.kind = "sequence" /\ Len(vertices) = 1

\* The worked example has been assembled into one sequence by two contractions.
C3_Witness ==
  /\ impl = "own" /\ pc = "done"
  /\ fragments = ExampleFragments
  /\ p = 2
  /\ result.kind = "sequence"
  /\ Len(result.value) = 8

\* C4: every greedy contraction step lowers the number of vertices by exactly
\* one and strictly lowers the number of edges; no step of the loop raises the
\* number of vertices or the number of edges.
C4_ContractionShrinks ==
  [][ (pc = "loop" /\ pc' \in {"loop", "error"}) =>
        /\ Len(vertices') <= Len(vertices)
        /\ Len(edges') <= Len(edges)
        /\ pc' = "loop" => /\ p' = p + 1
                           /\ Len(vertices') = Len(vertices) - 1
                           /\ Len(edges') < Len(edges) ]_vars

\* A second contraction has been made, in either implementation.
C4_Witness ==
  /\ pc = "loop" /\ p = 2 /\ Len(vertices) = Len(fragments) - 2

\* C5: for every finite fragment list the greedy assembler terminates, in
\* deterministic and in randomized tie-break mode: the loop reaches an empty
\* edge set after at most n - 1 contractions for n input fragments, whichever
\* of the edges tied for the maximum weight is chosen.
C5_Terminates ==
  /\ [](Len(fragments) >= 1 => p <= Len(fragments) - 1)
  /\ [](Len(fragments) = 0 => p = 0)
  /\ (pc = "start") ~> (pc = "done" /\ edges = <<>>)

\* A run in randomized mode has ended after n - 1 contractions.
C5_Witness ==
  /\ pc = "done" /\ random_tiebreak
  /\ Len(fragments) = MaxFrags
  /\ p = Len(fragments) - 1
  /\ edges = <<>>

\* C6: with random_tiebreak False, two runs of build_from_fragments and
\* merge_by_arbitrary_tiebreaks on the same fragment list contract the same
\* edge at every step and return the same result.
C6_Reproducible ==
  (run = 2 /\ impl = "own" /\ ~random_tiebreak) =>
     /\ Len(trace) <= Len(first_run.trace)
     /\ \A i \in 1..Len(trace) : trace[i] = first_run.trace[i]
     /\ pc = "done" => /\ trace = first_run.trace
                       /\ result = first_run.result

\* The second run has ended after two contractions, the first of which had to
\* break a tie.
C6_Witness ==
  /\ run = 2 /\ impl = "own" /\ ~random_tiebreak /\ pc = "done"
  /\ Len(trace) = 2
  /\ LET g == build_from_fragments(fragments)
     IN Cardinality(max_edge_candidates(g.edges, TRUE)) >= 2

\* No fragment of the list overlaps another one, in either direction.
ZeroPairwiseOverlap(frags) ==
  \A i, j \in 1..Len(frags) : i # j => LongestAffix(frags[i], frags[j]) = 0

\* One vertex per fragment, ids 1..n in input order, sequences unchanged.
OneVertexPerFragment(vs, frags, first_id) ==
  /\ Len(vs) = Len(frags)
  /\ \A i \in 1..Len(frags) : vs[i] = Vertex(first_id + i - 1, frags[i])

C8_NxKeepsEveryFragment ==
  impl = "nx" =>
     /\ (pc = "loop" /\ p = 0) => OneVertexPerFragment(vertices, fragments, 0)
     /\ pc = "done" =>
          /\ \A i \in 1..Len(fragments) :
                \E seq \in ResultSequences : IsSubstring(fragments[i], seq)
          /\ (Len(fragments) >= 2 /\ ZeroPairwiseOverlap(fragments)) =>
                result = [kind |-> "list", value |-> vertices]

\* C9: after the construction and any number of greedy contractions the edges
\* form a simple directed graph over the current vertices: both endpoints of
\* every edge are present, no edge has its source as its sink, and no two
\* edges have the same ordered (source id, sink id) pair.
C9_SimpleGraph ==
  Built =>
     \A i \in 1..Len(edges) :
        /\ Present(edges[i].source)
        /\ Present(edges[i].sink)
        /\ edges[i].source # edges[i].sink
        /\ \A j \in 1..Len(edges) :
              j # i => <<edges[j].source, edges[j].sink>> # <<edges[i].source, edges[i].sink>>

\* A contraction has left edges in both directions between the merged vertex
\* and another one.
C9_Witness ==
  /\ pc = "loop" /\ p >= 1
  /\ \E e1, e2 \in Range(edges) :
        /\ e1.source = Max(assigned_ids) /\ e2.sink = Max(assigned_ids)
        /\ e1.sink = e2.source

DistinctIds(vs) == \A i, j \in 1..Len(vs) : i # j => vs[i].id # vs[j].id

\* C10: across the construction and any sequence of greedy contractions the
\* ids of the current vertices are pairwise distinct and never reused: the id
\* of a merged vertex is greater than every id assigned before in that graph,
\* ids of vertices already merged away included.
C10_IdsNeverReused ==
  [][ /\ DistinctIds(vertices')
      /\ (pc = "loop" /\ pc' \in {"loop", "error"}) =>
            \E id \in assigned_ids' :
               /\ assigned_ids' = assigned_ids \cup {id}
               /\ \A old \in assigned_ids : id > old
               /\ \E v \in Range(vertices') : v.id = id
               /\ Range(get_vertex_ids(vertices')) \subseteq assigned_ids' ]_vars

\* A vertex that was itself the product of a merge has been merged away.
C10_Witness ==
  /\ pc = "loop" /\ p = 2
  /\ Cardinality(assigned_ids) = Len(fragments) + 2
  /\ \A v \in Range(vertices) : v.id # Max(assigned_ids) - 1

C12_NoMergeablePairLeft ==
  Built =>
     /\ \A i, j \in 1..Len(vertices) :
           (i # j /\ LongestAffix(vertices[i].value, vertices[j].value) > 0)
              => has_edge(edges, vertices[i].id, vertices[j].id)
     /\ (pc = "done" /\ Len(vertices) > 1) =>
           \A i, j \in 1..Len(vertices) :
              i # j => overlap(vertices[i].value, vertices[j].value).weight = 0

\* A run has ended after a contraction with two non-empty sequences left.
C12_Witness ==
  /\ pc = "done" /\ p >= 1
  /\ Len(vertices) = 2
  /\ \A v \in Range(vertices) : v.value # <<>>

\* C16: for every fragment list build_from_fragments creates exactly one
\* vertex per fragment with ids 1..n in input order, and for every ordered
\* pair of distinct vertices (u, v) there is an edge u->v if and only if the
\* longest suffix of u that is a prefix of v is not empty, exactly one such
\* edge, carrying that length as weight, the matched string and the span
\* (0, length); the two directions are decided independently and no vertex
\* has an edge to itself, even when fragments are identical.
C16_BuildFromFragments ==
  (impl = "own" /\ pc = "loop" /\ p = 0) =>
     /\ OneVertexPerFragment(vertices, fragments, 1)
     /\ \A i, j \in 1..Len(vertices) :
           LET u == vertices[i]
               v == vertices[j]
               k == LongestAffix(u.value, v.value)
               uv == { e \in 1..Len(edges) :
                         edges[e].source = u.id /\ edges[e].sink = v.id }
           IN IF i # j /\ k > 0
              THEN /\ Cardinality(uv) = 1
                   /\ \A e \in uv :
                         /\ edges[e].weight = k
                         /\ edges[e].match = SubSeq(v.value, 1, k)
                         /\ <<edges[e].pos_start, edges[e].pos_end>> = <<0, k>>
              ELSE uv = {}

\* The graph of three fragments has just been built; two of them are the same
\* non-empty string and have an edge in each direction, and some ordered pair
\* has an edge in one direction only.
C16_Witness ==
  /\ impl = "own" /\ pc = "loop" /\ p = 0
  /\ Len(fragments) = 3
  /\ \E i, j \in 1..3 :
        /\ i # j /\ fragments[i] = fragments[j] /\ fragments[i] # <<>>
        /\ has_edge(edges, i, j) /\ has_edge(edges, j, i)
  /\ \E i, j \in 1..3 : has_edge(edges, i, j) /\ ~has_edge(edges, j, i)

\* C18: if the greedy assembler finds the graph with zero vertices when the
\* edge set is empty, it aborts with an error raised to the caller; it never
\* returns normally from a zero-vertex graph.
C18_ZeroVerticesIsFatal ==
  (pc = "done" /\ vertices = <<>>) => result.kind = "ValueError"

\* Some fragment has a letter outside {A,C,G,T}.
HasForeignLetter(frags) ==
  \E i \in 1..Len(frags) : \E k \in 1..Len(frags[i]) : frags[i][k] \notin Alphabet

\* C17: malformed input is rejected before graph construction: for a fragment
\* list that is empty or contains a fragment with a character outside
\* {A,C,G,T}, no graph is built (no vertex and no edge is created) and the
\* run does not proceed to assembly.
C17_MalformedInputRejected ==
  (pc # "init" /\ (fragments = <<>> \/ HasForeignLetter(fragments))) =>
     /\ ~Built
     /\ vertices = <<>>
     /\ edges = <<>>

\* The Watson-Crick partner of a base.
Partner(l) == IF l = "A" THEN "T" ELSE IF l = "T" THEN "A"
              ELSE IF l = "C" THEN "G" ELSE "C"

\* C13: for every string s over {A,C,G,T}, the empty string included,
\* complement(s) is s reversed with A<->T and C<->G substituted, and
\* complement(complement(s)) = s.
C13_ComplementTwice ==
  /\ pc \in {"complemented", "complemented twice"} =>
        /\ Len(c_one) = Len(strand)
        /\ \A i \in 1..Len(strand) : c_one[i] = Partner(strand[Len(strand) + 1 - i])
  /\ pc = "complemented twice" => c_two = strand

\* A string that holds all four bases and is not its own reverse complement
\* has been complemented twice.
C13_Witness ==
  /\ pc = "complemented twice"
  /\ Range(strand) = Alphabet
  /\ c_one # strand

ReverseComplement(s) == [i \in 1..Len(s) |-> Partner(s[Len(s) + 1 - i])]

\* out pairs off with inp: some one-to-one assignment sends every input
\* fragment to an output element that is the fragment or its reverse complement.
PairsOff(out, inp) ==
  /\ Len(out) = Len(inp)
  /\ \E f \in [1..Len(inp) -> 1..Len(inp)] :
        /\ \A i, j \in 1..Len(inp) : f[i] = f[j] => i = j
        /\ \A i \in 1..Len(inp) :
             out[f[i]] \in {inp[i], ReverseComplement(inp[i])}

\* C14: for every non-empty list of fragments over {A,C,G,T}, a single
\* fragment and duplicates included, get_good_orientation returns a list of the
\* same cardinality whose elements correspond one-to-one to the input
\* fragments, each the fragment unchanged or its reverse complement.
C14_OrientationKeepsFragments ==
  (pc = "oriented" /\ fragments # <<>> /\ ~HasForeignLetter(fragments)) =>
    /\ max_weight_orientation.kind = "list"
    /\ PairsOff(max_weight_orientation.value, fragments)

\* What the k-th fragment of a trial scores against the first k elements of O,
\* the oriented set as it stands when that fragment is tested.
RECURSIVE ScoreAgainst(_, _, _)
ScoreAgainst(O, t, k) ==
  IF k = 0 THEN 0
  ELSE ScoreAgainst(O, t, k - 1)
       + same(O[k], t) + same(t, O[k]) + opp(O[k], t) + opp(t, O[k])

\* The score of a trial accumulated over the first k fragments added to O.
RECURSIVE AccumulatedTotal(_, _, _)
AccumulatedTotal(O, others, k) ==
  IF k = 0 THEN 0
  ELSE AccumulatedTotal(O, others, k - 1) + ScoreAgainst(O, others[k], k)

TrialTotal(i) ==
  LET others == _get_orientations_input(fragments)[i][2]
  IN AccumulatedTotal(orientations_with_weight[i].O, others, Len(others))

\* C15: the score calc_orientation returns for a seed is the total accumulated
\* over every fragment added to the oriented set O during that trial, and
\* get_good_orientation returns the orientation assignment of a seed whose
\* accumulated total is maximal among all seeds.
C15_AccumulatedScoreSelected ==
  (pc = "oriented" /\ max_weight_orientation.kind = "list") =>
    /\ \A i \in 1..Len(fragments) :
         orientations_with_weight[i].weight = TrialTotal(i)
    /\ \E i \in 1..Len(fragments) :
         /\ orientations_with_weight[i].O = max_weight_orientation.value
         /\ \A j \in 1..Len(fragments) : TrialTotal(j) <= TrialTotal(i)

\* The snapshots shown after a contraction (graph_1, graph_2, ...).
AfterContraction(k) == { i \in 1..Len(shown) : shown[i].name = k }

\* C19: when only the result is requested (print_only_result true, print_graph
\* false), a greedy run with k >= 1 contractions emits exactly one graph
\* snapshot and that snapshot is the final graph after the last contraction,
\* no initial or intermediate one; when step-by-step tracing is requested
\* (print_graph true) a snapshot is emitted after every contraction.
C19_SnapshotsAsRequested ==
  /\ (pc = "done" /\ p >= 1 /\ print_only_result /\ ~print_graph) =>
       shown = << show_graph(edges, vertices, p) >>
  /\ (pc \in {"loop", "done"} /\ p >= 1 /\ print_graph) =>
       /\ \A k \in 1..p : Cardinality(AfterContraction(k)) = 1
       /\ shown[Len(shown)] = show_graph(edges, vertices, p)

\* The Hamiltonian paths of a graph: the orders of all its vertices in which
\* every vertex is joined to the next by an edge.
HamiltonPaths(vs, es) ==
  { path \in [1..Len(vs) -> Range(get_vertex_ids(vs))] :
      /\ \A i, j \in 1..Len(vs) : path[i] = path[j] => i = j
      /\ \A i \in 1..(Len(vs) - 1) : has_edge(es, path[i], path[i + 1]) }

RECURSIVE PathWeight(_, _, _)
PathWeight(es, path, k) ==
  IF k <= 1 THEN 0
  ELSE PathWeight(es, path, k - 1)
       + (CHOOSE e \in Range(es) :
            e.source = path[k - 1] /\ e.sink = path[k]).weight

\* C20: the Hamiltonian strategy selects, among all Hamiltonian paths of the
\* overlap graph (all simple directed paths visiting every vertex exactly once,
\* from any start vertex), one whose total edge weight is maximal: no
\* Hamiltonian path with a strictly larger total weight exists in the graph.
C20_HeaviestHamiltonPathSelected ==
  [][(pc = "loop" /\ pc' = "hamilton" /\ vertices # <<>>
      /\ HamiltonPaths(vertices, edges) # {}) =>
       /\ max_path' # Pending
       /\ \E path \in HamiltonPaths(vertices, edges) :
            /\ max_path'.node_pairs =
                 [i \in 1..(Len(path) - 1) |-> <<path[i], path[i + 1]>>]
            /\ \A other \in HamiltonPaths(vertices, edges) :
                 PathWeight(edges, other, Len(other))
                   <= PathWeight(edges, path, Len(path))]_vars

C22_RemoveVertexAndGetVertex ==
  [][/\ (pc = "loop" /\ pc' = "removed") =>
          /\ edges' = edges
          /\ IF \E v \in Range(vertices) : v.id = argument'
             THEN /\ returned' = Returned("bool", TRUE)
                  /\ vertices' = SelectSeq(vertices, LAMBDA v : v.id # argument')
             ELSE /\ returned' = Returned("bool", FALSE)
                  /\ vertices' = vertices
     /\ (pc = "loop" /\ pc' = "got") =>
          IF \E v \in Range(vertices) : v.id = argument'
          THEN returned' = Returned("Vertex",
                             CHOOSE v \in Range(vertices) : v.id = argument')
          ELSE returned' = NoneReturned]_vars

\* The next contraction can be the one of edge e.
CanContract(e) ==
  ENABLED (/\ trace' = Append(trace, <<e.source, e.sink>>)
           /\ (ContractOwn \/ ContractNx))

Heaviest(es) ==
  { e \in Range(es) : \A other \in Range(es) : other.weight <= e.weight }

\* C23: every greedy contraction contracts an edge whose weight is the maximum
\* over all edges currently in the graph: in deterministic mode one fixed
\* maximum-weight edge is chosen, in randomized mode the chosen edge is always
\* one of the edges tied for the maximum and every such tied edge can be
\* chosen; a lighter edge is never contracted while a heavier one exists.
C23_MaxWeightEdgeContracted ==
  (pc = "loop" /\ edges # <<>>) =>
    LET chosen == { e \in Range(edges) : CanContract(e) }
    IN /\ chosen # {}
       /\ chosen \subseteq Heaviest(edges)
       /\ random_tiebreak => chosen = Heaviest(edges)
       /\ ~random_tiebreak => Cardinality(chosen) = 1

\* A random run is about to contract with several edges tied for the maximum
\* and a lighter edge in the graph.
C23_Witness ==
  /\ pc = "loop"
  /\ random_tiebreak
  /\ Cardinality(Heaviest(edges)) >= 2
  /\ Heaviest(edges) # Range(edges)
  /\ \A e \in Heaviest(edges) : CanContract(e)

\* The contraction that a step performs: a step that records one more pair.
Contracts(s, t) ==
  /\ Len(trace') = Len(trace) + 1
  /\ trace'[Len(trace')] = <<s, t>>

\* The vertices that a step adds.
Created == { v \in Range(vertices') : \A old \in Range(vertices) : old.id # v.id }

\* The edge s->t of the graph before the step.
EdgeBetween(s, t) == CHOOSE e \in Range(edges) : e.source = s /\ e.sink = t

IsSuffix(a, b) == Len(a) <= Len(b) /\ SubSeq(b, Len(b) - Len(a) + 1, Len(b)) = a

\* C24: contracting an edge source->sink of weight w creates exactly one new
\* vertex; its sequence is the source's sequence followed by the sink's
\* sequence without its first w letters (the match ends at w), so the source's
\* sequence is a prefix of it, the sink's sequence is a suffix of it, and its
\* length is len(source) + len(sink) - w.
C24_MergedSequence ==
  [][\A s, t \in assigned_ids : Contracts(s, t) =>
       LET e == EdgeBetween(s, t)
           source == get_value(vertices, s)
           sink == get_value(vertices, t)
       IN /\ e.pos_end = e.weight
          /\ Cardinality(Created) = 1
          /\ \A m \in Created :
               /\ m.value = source \o SubSeq(sink, e.weight + 1, Len(sink))
               /\ IsPrefix(source, m.value)
               /\ IsSuffix(sink, m.value)
               /\ Len(m.value) = Len(source) + Len(sink) - e.weight]_vars

\* A contraction of an edge whose match is shorter than both of its ends has
\* been carried out.
C24_Witness ==
  /\ pc = "loop"
  /\ trace # <<>>
  /\ \E m \in Range(vertices) : \E f, g \in Range(fragments) :
       /\ Len(m.value) < Len(f) + Len(g)
       /\ Len(m.value) > Len(f)
       /\ Len(m.value) > Len(g)
       /\ IsPrefix(f, m.value)
       /\ IsSuffix(g, m.value)

Successors(es, v) == { e.sink : e \in { x \in Range(es) : x.source = v } }

Predecessors(es, v) == { e.source : e \in { x \in Range(es) : x.sink = v } }

\* C25: a contraction of s->t into the new vertex m gives m the successors
\* that t had, s excepted, and the predecessors that s had, t excepted; no
\* edge touches s or t afterwards, so the outgoing edges of s, the incoming
\* edges of t and the edge t->s are gone and none of them leads to or from m.
C25_MergedNeighbours ==
  [][\A s, t \in assigned_ids : Contracts(s, t) =>
       \A m \in Created :
         /\ Successors(edges', m.id) = Successors(edges, t) \ {s}
         /\ Predecessors(edges', m.id) = Predecessors(edges, s) \ {t}
         /\ \A e \in Range(edges') : {e.source, e.sink} \cap {s, t} = {}]_vars

\* A contraction is about to happen whose source has a successor that the
\* sink has not, whose sink has a predecessor besides the source, and whose
\* merged vertex inherits an edge.
C25_Witness ==
  /\ pc = "loop"
  /\ ENABLED (/\ ContractOwn \/ ContractNx
              /\ \E s, t \in assigned_ids :
                   /\ Contracts(s, t)
                   /\ Successors(edges, s) \ (Successors(edges, t) \cup {t}) # {}
                   /\ Predecessors(edges, t) \ {s} # {}
                   /\ \/ Successors(edges, t) \ {s} # {}
                      \/ Predecessors(edges, s) \ {t} # {})

\* The edges of the graph that touch neither s nor t.
Apart(es, s, t) == { e \in Range(es) : {e.source, e.sink} \cap {s, t} = {} }

\* C26: a contraction of s->t leaves alone what does not touch s or t: every
\* other vertex is still there with its id and its sequence, no vertex that
\* was there has another sequence afterwards (the merge makes a new vertex),
\* and every edge between two other vertices is still there with its
\* endpoints, weight, match and span.
C26_ContractionFrame ==
  [][\A s, t \in assigned_ids : Contracts(s, t) =>
       /\ \A v \in Range(vertices) : v.id \notin {s, t} => v \in Range(vertices')
       /\ \A v \in Range(vertices') : \A old \in Range(vertices) :
            old.id = v.id => old.value = v.value
       /\ \A e \in Apart(edges, s, t) :
            \E kept \in Range(edges') :
              /\ kept.source = e.source
              /\ kept.sink = e.sink
              /\ kept.weight = e.weight
              /\ kept.match = e.match
              /\ kept.pos_start = e.pos_start
              /\ kept.pos_end = e.pos_end]_vars

\* A contraction is about to happen in a graph with a vertex besides the two
\* contracted ones and an edge that touches neither of them.
C26_Witness ==
  /\ pc = "loop"
  /\ ENABLED (/\ ContractOwn \/ ContractNx
              /\ \E s, t \in assigned_ids :
                   /\ Contracts(s, t)
                   /\ Apart(edges, s, t) # {}
                   /\ Apart(edges', s, t) # {})

\* The edges of s->t's graph that a contraction leads to the merged vertex:
\* those into s and those out of t, the edge t->s excepted.
Redirected(es, s, t) ==
  { e \in Range(es) : \/ e.sink = s /\ e.source \notin {s, t}
                      \/ e.source = t /\ e.sink \notin {s, t} }

\* C27: once the graph is built, and after any number of contractions, every
\* stored edge has a weight of at least 1 and no contraction has failed on a
\* missing span; a contraction gives every edge it leads to the merged vertex
\* a weight that is not smaller than the weight the edge had.
C27_WeightsStayPositive ==
  /\ [](Built => /\ pc # "error"
                 /\ \A e \in Range(edges) : e.weight >= 1)
  /\ [][\A s, t \in assigned_ids : Contracts(s, t) =>
         \A e \in Redirected(edges, s, t) : \A m \in Created :
           \E k \in Range(edges') :
             /\ k.source = (IF e.source = t THEN m.id ELSE e.source)
             /\ k.sink = (IF e.sink = s THEN m.id ELSE e.sink)
             /\ k.weight >= e.weight
             /\ k.weight >= 1]_vars

\* A contraction is about to lead an edge into the old source and an edge out
\* of the old sink to the merged vertex.
C27_Witness ==
  /\ pc = "loop"
  /\ ENABLED (/\ ContractOwn \/ ContractNx
              /\ \E s, t \in assigned_ids :
                   /\ Contracts(s, t)
                   /\ \E e, f \in Redirected(edges, s, t) :
                        e.sink = s /\ f.source = t
                   /\ Len(edges') >= 2)

\* C28: the span of an edge comes back as it was given: after an edge is made
\* with pos_start = start and pos_end = end, or after
\* set_match_position((start, end)), get_match_position() returns (start, end).
C28_MatchPositionRoundTrip ==
  pc = "position got" => returned = Returned("tuple", argument)
====
